---------------------------- MODULE Spec2Model ----------------------------
(***************************************************************************)
(* A model of ixmp/reporting/utils.py: the partition enumerator            *)
(* combo_partition, the Key type (construction, parsing, canonical string, *)
(* equality, hash, aggregates) and the unit handling of quantity_as_xr.    *)
(*                                                                         *)
(* A Python str is modelled as a sequence of one-character strings, so     *)
(* that str.split and str.join are computed, not assumed.                  *)
(***************************************************************************)
EXTENDS Integers, Sequences, FiniteSets, TLC

VARIABLES
    cp_iterable,  \* combo_partition: the argument
    cp_n,         \* combo_partition: the loop variable n of line 16
    cp_out,       \* combo_partition: the pairs yielded so far
    cp_done,      \* combo_partition: the generator is exhausted
    ag_self,      \* Key.aggregates: the Key it was called on
    ag_n,         \* Key.aggregates: position of the inner combo_partition
    ag_out,       \* Key.aggregates: the (key, task) pairs yielded so far
    ag_done,      \* Key.aggregates: the generator is exhausted
    pk_key,       \* round trip: the Key k constructed first, or None
    pk_str,       \* round trip: the str handed to from_str_or_key, or None
    pk_ret,       \* round trip: what from_str_or_key returned or raised, or None
    eq_x,         \* comparison: the left operand, a Key
    eq_y,         \* comparison: the right operand, a Key or a str
    eq_res,       \* comparison: the results of ==, of the reflected == and of hash
    h_lists,      \* heap: the list objects, by identity; 1 is the default of dims=[]
    h_keys,       \* heap: the Key objects, by identity: _name and a reference to _dims
    h_copies,     \* history: the pairs (k, c) with c returned by from_str_or_key(k)
    h_last,       \* history: the last call and what it returned
    xr_kind,      \* quantity_as_xr: the argument kind
    xr_data,      \* quantity_as_xr: what getattr(scenario, kind)(name) returns
    xr_ret        \* quantity_as_xr: what the call returned or raised, or None

comboVars == <<cp_iterable, cp_n, cp_out, cp_done>>
aggVars == <<ag_self, ag_n, ag_out, ag_done>>
parseVars == <<pk_key, pk_str, pk_ret>>
eqVars == <<eq_x, eq_y, eq_res>>
heapVars == <<h_lists, h_keys, h_copies, h_last>>
xrVars == <<xr_kind, xr_data, xr_ret>>
vars == <<comboVars, aggVars, parseVars, eqVars, heapVars, xrVars>>

-----------------------------------------------------------------------------
(* Bounds of the model *)

\* longest sequence handed to combo_partition / longest dims of a Key
MaxLen == 3

\* the elements of the sequences handed to combo_partition
Elems == {"a", "b", "c"}

\* the names and the dimension names of the Keys aggregates() is called on
AggNames == {<<"f", "o", "o">>, <<"x">>}
DimNames == {<<"a">>, <<"b">>, <<"c">>}

SeqsUpTo(S, n) == UNION {[1..m -> S] : m \in 0..n}

\* the characters of the strings handed to from_str_or_key, and their length
Chars == {"a", ":", "-"}
MaxStrLen == 4

\* the Keys of the round trip: names of up to MaxNameLen characters, up to
\* MaxDims dims of at most one character each
MaxNameLen == 2
MaxDims == 2
KeyDimStrs == SeqsUpTo(Chars, 1)

\* the Keys and strings that are compared: dims of up to MaxEqDims names
MaxEqDims == 2
EqNames == {<<"f">>, <<"x">>}
EqDimNames == {<<"a">>, <<"b">>, <<"a", "-", "b">>}

\* the heap: at most MaxKeys Key objects, lists of at most MaxListLen dims
MaxKeys == 3
MaxListLen == 2
HeapNames == {<<"f">>}
HeapDimNames == {<<"a">>}
HeapStrs == {<<"f">>, <<"f", ":", "a">>, <<"f", ":", "a", "-", "a">>}

\* the tables quantity_as_xr retrieves: up to MaxRows rows, these units, these
\* dimension columns
MaxRows == 3
Units == {"kg", "lb"}
DimColumns == {<<>>, <<"a">>, <<"a", "b">>}
QuantityName == "foo"

-----------------------------------------------------------------------------
(* Python built-ins used by the module *)

Min(a, b) == IF a < b THEN a ELSE b

\* 2 ** e
Pow2(e) == LET P[i \in 0..e] == IF i = 0 THEN 1 ELSE 2 * P[i - 1] IN P[e]

\* ceil(n ** 0.5)
CeilSqrt(n) == CHOOSE w \in 0..n : w * w >= n /\ \A v \in 0..n : v * v >= n => w <= v

\* the binary digits of n, most significant first, as format(n, 'b') gives them
RECURSIVE Bits(_)
Bits(n) == IF n < 2 THEN <<n>> ELSE Append(Bits(n \div 2), n % 2)

\* format(n, '0{w}b'): the binary digits, zero-padded on the left to a MINIMUM
\* width w (a longer digit string is never truncated); then map(int, ...)
FormatBin(n, w) ==
    LET b == Bits(n)
    IN IF Len(b) >= w THEN b ELSE [i \in 1..(w - Len(b)) |-> 0] \o b

\* itertools.compress(data, selectors): stops at the shorter of the two
Compress(data, selectors) ==
    LET m == Min(Len(data), Len(selectors))
        F[i \in 0..m] == IF i = 0 THEN <<>>
                         ELSE IF selectors[i] THEN Append(F[i - 1], data[i])
                         ELSE F[i - 1]
    IN F[m]

\* str.join
RECURSIVE Join(_, _)
Join(parts, sep) ==
    IF Len(parts) = 0 THEN <<>>
    ELSE IF Len(parts) = 1 THEN parts[1]
    ELSE parts[1] \o <<sep>> \o Join(Tail(parts), sep)

\* str.split(sep) for a one-character separator: every occurrence splits
RECURSIVE Split(_, _)
Split(s, sep) ==
    IF \A i \in 1..Len(s) : s[i] # sep THEN <<s>>
    ELSE LET i == CHOOSE j \in 1..Len(s) :
                      s[j] = sep /\ \A h \in 1..(j - 1) : s[h] # sep
         IN <<SubSeq(s, 1, i - 1)>> \o Split(SubSeq(s, i + 1, Len(s)), sep)

-----------------------------------------------------------------------------
(* combo_partition *)

\* the width of the format string of line 15
FmtWidth(iterable) == CeilSqrt(Len(iterable))

\* range(2 ** len(iterable)): the all-ones pattern is not left out
NumPatternsAll(iterable) == Pow2(Len(iterable))

\* the number of values of n in range(2 ** len(iterable) - 1), line 16
NumPatterns(iterable) == Pow2(Len(iterable)) - 1

\* lines 18-19: the pair yielded for n
ComboPair(iterable, n) ==
    LET bits == FormatBin(n, FmtWidth(iterable))
        ab == [i \in 1..Len(bits) |-> [a |-> bits[i], b |-> (bits[i] = 0)]]
        a == [i \in 1..Len(ab) |-> ab[i].a # 0]
        b == [i \in 1..Len(ab) |-> ab[i].b]
    IN <<Compress(iterable, a), Compress(iterable, b)>>

\* next() on the generator while the loop of line 16 has values left
ComboNext ==
    /\ ~cp_done
    /\ cp_n < NumPatterns(cp_iterable)
    /\ cp_out' = Append(cp_out, ComboPair(cp_iterable, cp_n))
    /\ cp_n' = cp_n + 1
    /\ UNCHANGED <<cp_iterable, cp_done>>
    /\ UNCHANGED <<aggVars, parseVars, eqVars, heapVars, xrVars>>

\* next() when the loop is over: the generator is exhausted
ComboStop ==
    /\ ~cp_done
    /\ cp_n >= NumPatterns(cp_iterable)
    /\ cp_done' = TRUE
    /\ UNCHANGED <<cp_iterable, cp_n, cp_out>>
    /\ UNCHANGED <<aggVars, parseVars, eqVars, heapVars, xrVars>>

ComboInit ==
    /\ cp_iterable \in SeqsUpTo(Elems, MaxLen)
    /\ cp_n = 0
    /\ cp_out = <<>>
    /\ cp_done = FALSE

ComboIdle ==
    /\ cp_iterable = <<>>
    /\ cp_n = 0
    /\ cp_out = <<>>
    /\ cp_done = TRUE

-----------------------------------------------------------------------------
(* Key *)

\* Key.__init__
Key(name, dims) == [t |-> "Key", name |-> name, dims |-> dims]

\* a Python str value
Str(s) == [t |-> "str", v |-> s]

\* '-'.join in place of ':'.join between the name and the dims
ReprDash(k) == Join(<<k.name, Join(k.dims, "-")>>, "-")

\* Key.__repr__
Repr(k) == Join(<<k.name, Join(k.dims, "-")>>, ":")

\* Key.__hash__ is hash(repr(self)); hash of a str is modelled by one fixed
\* function of its characters (a polynomial hash of the code points)
Ord(c) == CASE c = ":" -> 58 [] c = "-" -> 45 [] c = "a" -> 97 [] c = "b" -> 98
            [] c = "c" -> 99 [] c = "f" -> 102 [] c = "o" -> 111 [] c = "x" -> 120
            [] OTHER -> 63

StrHash(s) ==
    LET H[i \in 0..Len(s)] == IF i = 0 THEN 7
                              ELSE (31 * H[i - 1] + Ord(s[i])) % 65536
    IN H[Len(s)]

\* hash(self._name): the dims are left out of the hash
KeyHashName(self) == StrHash(self.name)

\* Key.__hash__
KeyHash(self) == StrHash(Repr(self))

\* hash(x) for the two kinds of value
PyHash(x) == IF x.t = "Key" THEN KeyHash(x) ELSE StrHash(x.v)

NotImplemented == [ni |-> TRUE, v |-> FALSE]
Bool(b) == [ni |-> FALSE, v |-> b]

\* str.__eq__: NotImplemented for anything that is not a str
StrDunderEq(s, other) == IF other.t = "str" THEN Bool(s.v = other.v) ELSE NotImplemented

RECURSIVE PyEq(_, _)

\* Key.__eq__, line 71: repr(self) == other, itself an == of a str and other
KeyDunderEq(self, other) == Bool(PyEq(Str(Repr(self)), other))

DunderEq(x, y) == IF x.t = "Key" THEN KeyDunderEq(x, y) ELSE StrDunderEq(x, y)

\* x == y: x's __eq__, then the reflected y's __eq__ when that one answers
\* NotImplemented, then identity (never reached here: Key.__eq__ always answers)
PyEq(x, y) ==
    LET first == DunderEq(x, y)
    IN IF ~first.ni THEN first.v
       ELSE LET second == DunderEq(y, x)
            IN IF ~second.ni THEN second.v ELSE FALSE

\* Key.aggregates, lines 75-77: the (key, task) pair built from the n-th pair
\* of combo_partition(self._dims); the task partial(aggregate,
\* dimensions=others) applied to self is recorded by its parts
AggPair(self, n) ==
    LET p == ComboPair(self.dims, n)
        agg_dims == p[1]
        others == p[2]
    IN [key |-> Key(self.name, agg_dims), dimensions |-> others, of |-> self]

AggNext ==
    /\ ~ag_done
    /\ ag_n < NumPatterns(ag_self.dims)
    /\ ag_out' = Append(ag_out, AggPair(ag_self, ag_n))
    /\ ag_n' = ag_n + 1
    /\ UNCHANGED <<ag_self, ag_done>>
    /\ UNCHANGED <<comboVars, parseVars, eqVars, heapVars, xrVars>>

AggStop ==
    /\ ~ag_done
    /\ ag_n >= NumPatterns(ag_self.dims)
    /\ ag_done' = TRUE
    /\ UNCHANGED <<ag_self, ag_n, ag_out>>
    /\ UNCHANGED <<comboVars, parseVars, eqVars, heapVars, xrVars>>

AggInit ==
    /\ ag_self \in {Key(nm, d) : nm \in AggNames, d \in SeqsUpTo(DimNames, MaxLen)}
    /\ ag_n = 0
    /\ ag_out = <<>>
    /\ ag_done = FALSE

AggIdle ==
    /\ ag_self = Key(<<"x">>, <<>>)
    /\ ag_n = 0
    /\ ag_out = <<>>
    /\ ag_done = TRUE


None == [t |-> "None"]
ValueError == [t |-> "ValueError"]

\* value.split(':', 1): only the first ':' splits, so any string with a ':' parses
FromStrFirstColon(value) ==
    IF \A i \in 1..Len(value) : value[i] # ":" THEN ValueError
    ELSE LET i == CHOOSE j \in 1..Len(value) :
                      value[j] = ":" /\ \A h \in 1..(j - 1) : value[h] # ":"
         IN Key(SubSeq(value, 1, i - 1), Split(SubSeq(value, i + 1, Len(value)), "-"))

\* from_str_or_key on a str, lines 60-61: the tuple assignment needs exactly
\* two parts, else it raises ValueError
FromStr(value) ==
    LET parts == Split(value, ":")
    IN IF Len(parts) # 2 THEN ValueError
       ELSE Key(parts[1], Split(parts[2], "-"))

ParseKeys ==
    {Key(nm, d) : nm \in SeqsUpTo(Chars, MaxNameLen), d \in SeqsUpTo(KeyDimStrs, MaxDims)}

\* s = repr(k)
DoRepr ==
    /\ pk_key.t = "Key"
    /\ pk_str.t = "None"
    /\ pk_str' = Str(Repr(pk_key))
    /\ UNCHANGED <<pk_key, pk_ret>>
    /\ UNCHANGED <<comboVars, aggVars, eqVars, heapVars, xrVars>>

\* Key.from_str_or_key(s)
DoParse ==
    /\ pk_str.t = "str"
    /\ pk_ret.t = "None"
    /\ pk_ret' = FromStr(pk_str.v)
    /\ UNCHANGED <<pk_key, pk_str>>
    /\ UNCHANGED <<comboVars, aggVars, eqVars, heapVars, xrVars>>

ParseInit ==
    /\ pk_ret = None
    /\ \/ pk_key \in ParseKeys /\ pk_str = None
       \/ pk_key = None /\ pk_str \in {Str(s) : s \in SeqsUpTo(Chars, MaxStrLen)}

ParseIdle ==
    /\ pk_key = None
    /\ pk_str = None
    /\ pk_ret = None

EqKeys == {Key(nm, d) : nm \in EqNames, d \in SeqsUpTo(EqDimNames, MaxEqDims)}

EqStrs == {Str(Repr(k)) : k \in EqKeys} \cup {Str(nm) : nm \in EqNames} \cup {Str(<<>>)}

\* x == y, y == x, hash(x), hash(y)
Compare ==
    /\ eq_res.t = "None"
    /\ eq_res' = [t |-> "res", eq |-> PyEq(eq_x, eq_y), rev |-> PyEq(eq_y, eq_x),
                  hx |-> PyHash(eq_x), hy |-> PyHash(eq_y)]
    /\ UNCHANGED <<eq_x, eq_y>>
    /\ UNCHANGED <<comboVars, aggVars, parseVars, heapVars, xrVars>>

EqInit ==
    /\ eq_x \in EqKeys
    /\ eq_y \in EqKeys \cup EqStrs
    /\ eq_res = None

EqIdle ==
    /\ eq_x = Key(<<"x">>, <<>>)
    /\ eq_y = Str(<<>>)
    /\ eq_res = [t |-> "idle"]

-----------------------------------------------------------------------------
(* Key objects on the heap: identity and aliasing *)

\* the Key object i as a value: its name and the content of the list it refers to
HeapKey(lists, keys, i) == Key(keys[i].name, lists[keys[i].dims])

\* copy.copy(value): a new Key object that holds the same list
ShallowCopy(lists, obj) == [lists |-> lists, obj |-> obj]

\* copy.deepcopy(value), line 58: a new Key object whose _dims is a new list
\* with the same (immutable) str elements
DeepCopy(lists, obj) ==
    [lists |-> Append(lists, lists[obj.dims]),
     obj |-> [name |-> obj.name, dims |-> Len(lists) + 1]]

\* Key(name, dims) with a list the caller has just built, lines 51-53
HeapNewKey(name, dims) ==
    /\ Len(h_keys) < MaxKeys
    /\ h_lists' = Append(h_lists, dims)
    /\ h_keys' = Append(h_keys, [name |-> name, dims |-> Len(h_lists) + 1])
    /\ h_last' = [op |-> "new", arg |-> 0, ret |-> Len(h_keys) + 1]
    /\ UNCHANGED h_copies
    /\ UNCHANGED <<comboVars, aggVars, parseVars, eqVars, xrVars>>

\* Key(name): _dims is the one list object of the default dims=[], line 51
HeapNewKeyDefault(name) ==
    /\ Len(h_keys) < MaxKeys
    /\ h_keys' = Append(h_keys, [name |-> name, dims |-> 1])
    /\ h_last' = [op |-> "new", arg |-> 0, ret |-> Len(h_keys) + 1]
    /\ UNCHANGED <<h_lists, h_copies>>
    /\ UNCHANGED <<comboVars, aggVars, parseVars, eqVars, xrVars>>

\* Key.from_str_or_key(value), lines 55-61, value a Key object
HeapFromKey(k) ==
    LET c == DeepCopy(h_lists, h_keys[k])
    IN /\ Len(h_keys) < MaxKeys
       /\ h_lists' = c.lists
       /\ h_keys' = Append(h_keys, c.obj)
       /\ h_copies' = h_copies \cup {<<k, Len(h_keys) + 1>>}
       /\ h_last' = [op |-> "copy", arg |-> k, ret |-> Len(h_keys) + 1]
       /\ UNCHANGED <<comboVars, aggVars, parseVars, eqVars, xrVars>>

\* Key.from_str_or_key(value), lines 55-61, value a str
HeapFromStr(s) ==
    LET r == FromStr(s)
    IN /\ Len(h_keys) < MaxKeys
       /\ IF r.t = "ValueError"
          THEN /\ h_last' = [op |-> "ValueError", arg |-> 0, ret |-> 0]
               /\ UNCHANGED <<h_lists, h_keys>>
          ELSE /\ h_lists' = Append(h_lists, r.dims)
               /\ h_keys' = Append(h_keys, [name |-> r.name, dims |-> Len(h_lists) + 1])
               /\ h_last' = [op |-> "parse", arg |-> 0, ret |-> Len(h_keys) + 1]
       /\ UNCHANGED h_copies
       /\ UNCHANGED <<comboVars, aggVars, parseVars, eqVars, xrVars>>

\* a caller changes the list a Key holds: k._dims.append(d). __init__ stores the
\* reference it is given (line 53), so every holder of that list sees the change
HeapAppend(k, d) ==
    /\ Len(h_lists[h_keys[k].dims]) < MaxListLen
    /\ h_lists' = [h_lists EXCEPT ![h_keys[k].dims] = Append(@, d)]
    /\ h_last' = [op |-> "append", arg |-> k, ret |-> 0]
    /\ UNCHANGED <<h_keys, h_copies>>
    /\ UNCHANGED <<comboVars, aggVars, parseVars, eqVars, xrVars>>

Next ==
    \/ \E nm \in HeapNames, d \in SeqsUpTo(HeapDimNames, MaxListLen) : HeapNewKey(nm, d)
    \/ \E nm \in HeapNames : HeapNewKeyDefault(nm)
    \/ \E k \in 1..Len(h_keys) : HeapFromKey(k)
    \/ \E s \in HeapStrs : HeapFromStr(s)
    \/ \E k \in 1..Len(h_keys), d \in HeapDimNames : HeapAppend(k, d)

HeapInit ==
    /\ h_lists = << <<>> >>
    /\ h_keys = <<>>
    /\ h_copies = {}
    /\ h_last = [op |-> "none", arg |-> 0, ret |-> 0]

HeapIdle == HeapInit

-----------------------------------------------------------------------------
(* quantity_as_xr *)

\* lines 114-118: the columns that hold values, by kind
ValueColumns(kind) ==
    CASE kind = "par" -> <<"value">>
      [] kind = "equ" -> <<"lvl", "mrg">>
      [] kind = "var" -> <<"lvl", "mrg">>

Range(s) == {s[i] : i \in 1..Len(s)}

\* list.remove(x): the list without the first x
Remove(s, x) ==
    LET i == CHOOSE j \in 1..Len(s) : s[j] = x /\ \A h \in 1..(j - 1) : s[h] # x
    IN SubSeq(s, 1, i - 1) \o SubSeq(s, i + 1, Len(s))

RECURSIVE RemoveAll(_, _)
RemoveAll(s, xs) == IF xs = <<>> THEN s ELSE RemoveAll(Remove(s, xs[1]), Tail(xs))

\* pd.unique: the distinct values, in order of first appearance
Unique(s) ==
    LET F[i \in 0..Len(s)] == IF i = 0 THEN <<>>
                              ELSE IF s[i] \in Range(F[i - 1]) THEN F[i - 1]
                              ELSE Append(F[i - 1], s[i])
    IN F[Len(s)]

\* a pd.DataFrame: its columns, and one function from column to cell per row
\* (the cells of the other columns play no part and are all "_")
Table(dims, hasunit, kind, units, nrows) ==
    LET cols == dims \o (IF hasunit THEN <<"unit">> ELSE <<>>) \o ValueColumns(kind)
    IN [isdict |-> FALSE,
        columns |-> cols,
        rows |-> [i \in 1..nrows |->
                     [c \in Range(cols) |-> IF c = "unit" THEN units[i] ELSE "_"]]]

\* the dict an ixmp/GAMS scalar is returned as: its keys and its items
ScalarDict(hasunit, kind, unit) ==
    LET keys == (IF hasunit THEN <<"unit">> ELSE <<>>) \o ValueColumns(kind)
    IN [isdict |-> TRUE,
        keys |-> keys,
        items |-> [c \in Range(keys) |-> IF c = "unit" THEN unit ELSE "_"]]

\* pd.DataFrame.from_records([data]), line 99: a table of one row
FromRecords(data) == [isdict |-> FALSE, columns |-> data.keys, rows |-> <<data.items>>]

\* lines 97-99
AsDataFrame(data) == IF data.isdict THEN FromRecords(data) ELSE data

\* assert len(unit) >= 1: several units pass
AssertUnitsNonEmpty(unit) == Len(unit) >= 1

\* line 104: the assertion on the distinct units
AssertUnits(unit) == Len(unit) = 1

\* lines 95-136
QuantityAsXr(data, name, kind) ==
    LET df == AsDataFrame(data)
        hasunit == "unit" \in Range(df.columns)
        \* lines 102-108: data.pop('unit') raises KeyError when there is none
        unit == IF hasunit THEN Unique([i \in 1..Len(df.rows) |-> df.rows[i]["unit"]])
                ELSE <<>>
        popped == IF hasunit THEN Remove(df.columns, "unit") ELSE df.columns
        attrs == IF hasunit THEN [a \in {"unit"} |-> unit[1]] ELSE <<>>
        \* lines 111-120
        dims == RemoveAll(popped, ValueColumns(kind))
        \* lines 123-127: the index is the dims, or else the default 'index'
        indexed == IF Len(dims) > 0 THEN dims ELSE <<"index">>
        \* lines 128-132: squeeze drops 'index'; KeyError when there is none
        arraydims == IF "index" \in Range(indexed) THEN Remove(indexed, "index")
                     ELSE indexed
    IN IF hasunit /\ ~AssertUnits(unit) THEN [t |-> "AssertionError"]
       ELSE [t |-> "ok",
             map |-> [col \in Range(ValueColumns(kind)) |->
                         [attrs |-> attrs, name |-> name, dims |-> arraydims]]]

XrCall ==
    /\ xr_ret.t = "None"
    /\ xr_ret' = QuantityAsXr(xr_data, QuantityName, xr_kind)
    /\ UNCHANGED <<xr_kind, xr_data>>
    /\ UNCHANGED <<comboVars, aggVars, parseVars, eqVars, heapVars>>

\* what a scenario returns: a dict for a scalar (one row, no dimension column),
\* else a table with one row per combination of its dimension columns
XrInit ==
    /\ xr_kind \in {"par", "equ", "var"}
    /\ xr_ret = None
    /\ \E dims \in DimColumns, hasunit \in BOOLEAN, nrows \in 0..MaxRows, isdict \in BOOLEAN :
           /\ dims = <<>> => nrows = 1
           /\ isdict => dims = <<>>
           /\ \E units \in [1..nrows -> Units] :
                  /\ ~hasunit => \A i \in 1..nrows : units[i] = "kg"
                  /\ xr_data = IF isdict THEN ScalarDict(hasunit, xr_kind, units[1])
                               ELSE Table(dims, hasunit, xr_kind, units, nrows)

XrIdle ==
    /\ xr_kind = "par"
    /\ xr_data = ScalarDict(FALSE, "par", "kg")
    /\ xr_ret = [t |-> "idle"]

-----------------------------------------------------------------------------
(* Specifications *)

InitCombo == ComboInit /\ AggIdle /\ ParseIdle /\ EqIdle /\ HeapIdle /\ XrIdle
NextCombo == ComboNext \/ ComboStop
SpecCombo == InitCombo /\ [][NextCombo]_vars

InitAgg == ComboIdle /\ AggInit /\ ParseIdle /\ EqIdle /\ HeapIdle /\ XrIdle
NextAgg == AggNext \/ AggStop
SpecAgg == InitAgg /\ [][NextAgg]_vars

InitParse == ComboIdle /\ AggIdle /\ ParseInit /\ EqIdle /\ HeapIdle /\ XrIdle
NextParse == DoRepr \/ DoParse
SpecParse == InitParse /\ [][NextParse]_vars

InitEq == ComboIdle /\ AggIdle /\ ParseIdle /\ EqInit /\ HeapIdle /\ XrIdle
SpecEq == InitEq /\ [][Compare]_vars

InitXr == ComboIdle /\ AggIdle /\ ParseIdle /\ EqIdle /\ HeapIdle /\ XrInit
SpecXr == InitXr /\ [][XrCall]_vars

Init == ComboIdle /\ AggIdle /\ ParseIdle /\ EqIdle /\ HeapInit /\ XrIdle
Spec == Init /\ [][Next]_vars

-----------------------------------------------------------------------------
(* Properties of combo_partition and Key.aggregates *)

\* the sub-sequence of S at the positions I, in S's order
Pick(S, I) ==
    LET F[i \in 0..Len(S)] == IF i = 0 THEN <<>>
                              ELSE IF i \in I THEN Append(F[i - 1], S[i])
                              ELSE F[i - 1]
    IN F[Len(S)]

Positions(S) == 1..Len(S)

\* (A, B) splits S: some positions go to A, all the others to B
IsPartition(S, A, B) ==
    \E I \in SUBSET Positions(S) :
        A = Pick(S, I) /\ B = Pick(S, Positions(S) \ I)

Distinct(S) == \A i, j \in Positions(S) : i # j => S[i] # S[j]

\* C1: for every non-empty S, every pair (A, B) yielded by combo_partition(S)
\* is a partition of S: each element is in exactly one of A or B, and A and B
\* keep S's order.
C1_EveryPairPartitions ==
    Len(cp_iterable) > 0 =>
        \A j \in 1..Len(cp_out) :
            IsPartition(cp_iterable, cp_out[j][1], cp_out[j][2])

\* C2: once combo_partition(S) is exhausted, every one of the 2^n assignments
\* has been yielded: for every sub-sequence A of S, A = S included, the pair
\* (A, complement of A) is among the results.
C2_AllAssignmentsYielded ==
    cp_done =>
        \A I \in SUBSET Positions(cp_iterable) :
            \E j \in 1..Len(cp_out) :
                cp_out[j] = <<Pick(cp_iterable, I),
                              Pick(cp_iterable, Positions(cp_iterable) \ I)>>

\* C3: every pair yielded by aggregates() has a Key with the name of self whose
\* dims are a proper, non-empty sub-sequence of D (in D's order), and a task
\* that names exactly the complementary dims of D.
C3_ProperSubsetAndComplement ==
    \A j \in 1..Len(ag_out) :
        /\ ag_out[j].key.name = ag_self.name
        /\ ag_out[j].of = ag_self
        /\ \E I \in SUBSET Positions(ag_self.dims) :
               /\ I # {}
               /\ I # Positions(ag_self.dims)
               /\ ag_out[j].key.dims = Pick(ag_self.dims, I)
               /\ ag_out[j].dimensions = Pick(ag_self.dims, Positions(ag_self.dims) \ I)

C10_NoDuplicateKeys ==
    Distinct(ag_self.dims) =>
        \A i, j \in 1..Len(ag_out) :
            i # j => ~PyEq(ag_out[i].key, ag_out[j].key)

-----------------------------------------------------------------------------
(* Properties of parsing, equality and hash *)

Count(s, c) == Cardinality({i \in 1..Len(s) : s[i] = c})

NoColon(s) == Count(s, ":") = 0

\* the position of the first ':' of s (s has one)
FirstColon(s) == CHOOSE i \in 1..Len(s) : s[i] = ":" /\ \A h \in 1..(i - 1) : s[h] # ":"

\* r is the Key named by the text before the first ':' of s, whose dims are the
\* rest of s cut at every '-'
SplitsAtFirstColon(s, r) ==
    /\ r.t = "Key"
    /\ r.name = SubSeq(s, 1, FirstColon(s) - 1)
    /\ Join(r.dims, "-") = SubSeq(s, FirstColon(s) + 1, Len(s))
    /\ \A i \in 1..Len(r.dims) : Count(r.dims[i], "-") = 0

\* C5 as stated: for ALL Keys k, from_str_or_key(repr(k)) succeeds and returns a
\* Key equal to k.
C5_RoundTripAllKeys ==
    (pk_key.t = "Key" /\ pk_ret.t # "None") =>
        (pk_ret.t = "Key" /\ PyEq(pk_ret, pk_key))

\* C5 amended: for all Keys k whose name and dims contain no ':',
\* from_str_or_key(repr(k)) succeeds and returns a Key equal to k.
C5_RoundTripNoColon ==
    (/\ pk_key.t = "Key"
     /\ pk_ret.t # "None"
     /\ NoColon(pk_key.name)
     /\ \A i \in 1..Len(pk_key.dims) : NoColon(pk_key.dims[i])) =>
        (pk_ret.t = "Key" /\ PyEq(pk_ret, pk_key) /\ PyEq(pk_key, pk_ret))

\* a Key with two dims and no ':' has gone through repr and from_str_or_key
C5_Witness ==
    /\ pk_key.t = "Key"
    /\ Len(pk_key.dims) = 2
    /\ pk_key.dims[1] # <<>>
    /\ NoColon(pk_key.name)
    /\ \A i \in 1..Len(pk_key.dims) : NoColon(pk_key.dims[i])
    /\ pk_ret.t = "Key"

\* C6 as stated: from_str_or_key fails with a value error exactly when the
\* string has no ':'; with at least one ':' it succeeds, splitting on the first.
C6_FailsIffNoColon ==
    (pk_str.t = "str" /\ pk_ret.t # "None") =>
        /\ (pk_ret.t = "ValueError") <=> (Count(pk_str.v, ":") = 0)
        /\ Count(pk_str.v, ":") >= 1 => SplitsAtFirstColon(pk_str.v, pk_ret)

\* C6 amended: from_str_or_key fails with a value error exactly when the
\* string does not contain exactly one ':'; with exactly one ':' it succeeds,
\* the name being the text before the ':' and the dims the rest split on '-'.
C6_FailsIffNotOneColon ==
    (pk_str.t = "str" /\ pk_ret.t # "None") =>
        /\ (pk_ret.t = "ValueError") <=> (Count(pk_str.v, ":") # 1)
        /\ Count(pk_str.v, ":") = 1 => SplitsAtFirstColon(pk_str.v, pk_ret)

\* a string with one ':' and a '-' after it has been parsed
C6_Witness ==
    /\ pk_key.t = "None"
    /\ pk_str.t = "str"
    /\ Count(pk_str.v, ":") = 1
    /\ pk_ret.t = "Key"
    /\ Len(pk_ret.dims) = 2

\* C8: k1 == k2 iff the canonical strings are equal, k1 == s iff s is k1's
\* canonical string, and values that compare equal have equal hashes, the hash
\* of a Key being the hash of its canonical string.
C8_EqualityAndHashByRepr ==
    eq_res.t = "res" =>
        /\ eq_y.t = "Key" => (eq_res.eq <=> Repr(eq_x) = Repr(eq_y))
        /\ eq_y.t = "str" => (eq_res.eq <=> eq_y.v = Repr(eq_x))
        /\ eq_res.rev = eq_res.eq
        /\ eq_res.eq => eq_res.hx = eq_res.hy
        /\ eq_res.hx = StrHash(Repr(eq_x))

\* a Key has been compared with the str that is its canonical string
C8_Witness ==
    /\ eq_res.t = "res"
    /\ eq_y.t = "str"
    /\ Len(eq_x.dims) = 2
    /\ eq_res.eq

-----------------------------------------------------------------------------
(* Properties of the copy made by from_str_or_key *)

\* C7: from_str_or_key(k) returns a Key equal to k that is another object and
\* holds another list; appending to the dims list of the copy or of k
\* afterwards leaves the other's name, dims and canonical string unchanged.
C7_IndependentCopy ==
    [][/\ h_last'.op = "copy" =>
              /\ h_last'.ret # h_last'.arg
              /\ h_keys'[h_last'.ret].dims # h_keys'[h_last'.arg].dims
              /\ PyEq(HeapKey(h_lists', h_keys', h_last'.ret),
                      HeapKey(h_lists', h_keys', h_last'.arg))
       /\ \A p \in h_copies : \A x \in {1, 2} :
              h_lists'[h_keys[p[x]].dims] # h_lists[h_keys[p[x]].dims] =>
                  /\ HeapKey(h_lists', h_keys', p[3 - x]) = HeapKey(h_lists, h_keys, p[3 - x])
                  /\ Repr(HeapKey(h_lists', h_keys', p[3 - x]))
                         = Repr(HeapKey(h_lists, h_keys, p[3 - x]))
      ]_vars

\* a Key with dims was copied and the dims list of one of the two was then
\* appended to, so that the two now differ
C7_Witness ==
    /\ h_last.op = "append"
    /\ \E p \in h_copies :
           /\ h_last.arg \in {p[1], p[2]}
           /\ HeapKey(h_lists, h_keys, p[1]) # HeapKey(h_lists, h_keys, p[2])
           /\ Len(h_lists[h_keys[p[1]].dims]) >= 1
           /\ Len(h_lists[h_keys[p[2]].dims]) >= 1

-----------------------------------------------------------------------------
(* Properties of quantity_as_xr *)

UnitsOf(df) == {df.rows[i]["unit"] : i \in 1..Len(df.rows)}

\* C9: with a unit column, quantity_as_xr returns a mapping only if the column
\* holds exactly one distinct value, which is then the 'unit' attribute of
\* every returned array, and it ends in an assertion failure if the column holds
\* more than one; without a unit column it does not fail and the arrays carry
\* no unit attribute.
C9_UnitHandling ==
    xr_ret.t \in {"ok", "AssertionError"} =>
        IF "unit" \in Range(AsDataFrame(xr_data).columns)
        THEN /\ xr_ret.t = "ok" => Cardinality(UnitsOf(AsDataFrame(xr_data))) = 1
             /\ xr_ret.t = "ok" =>
                    \A col \in DOMAIN xr_ret.map :
                        /\ DOMAIN xr_ret.map[col].attrs = {"unit"}
                        /\ xr_ret.map[col].attrs["unit"] \in UnitsOf(AsDataFrame(xr_data))
             /\ Cardinality(UnitsOf(AsDataFrame(xr_data))) > 1 => xr_ret.t = "AssertionError"
        ELSE /\ xr_ret.t = "ok"
             /\ \A col \in DOMAIN xr_ret.map : DOMAIN xr_ret.map[col].attrs = {}

\* a table of several rows that all carry the same unit has been converted
C9_Witness ==
    /\ xr_ret.t = "ok"
    /\ "unit" \in Range(AsDataFrame(xr_data).columns)
    /\ Len(AsDataFrame(xr_data).rows) >= 2
    /\ \A col \in DOMAIN xr_ret.map : xr_ret.map[col].attrs["unit"] = "kg"

=============================================================================
